---- MODULE Spec2Model ----
\* The number-guessing game of src/bin/guess_with_random.rs as a state machine:
\* one action per step of main, text as sequences of one-character strings,
\* the u32 guess as two decimal limbs so that overflow of the 32-bit width is
\* computed as the parse computes it.
EXTENDS Integers, Sequences, FiniteSets, TLC

VARIABLES pc, secret_number, guess, read_result, trimmed, num, out, err, exit,
          stdin, reads, example_pos, line_in

vars == <<pc, secret_number, guess, read_result, trimmed, num, out, err, exit,
          stdin, reads, example_pos, line_in>>

\* ---------------------------------------------------------------- bounds

\* Lines the input stream supplies in one run (the loop itself has no bound).
MaxReads == 3

\* Characters, before the newline, of a line typed to the echo program.
MaxLineLen == 3

\* ------------------------------------------------------ program constants

SecretMin == 1
SecretMax == 100
\* u32::MAX = 4294967295, held as two limbs of five decimal digits.
Limb == 100000
U32MaxHi == 42949
U32MaxLo == 67295
\* The exit code of a Rust process whose main thread panicked.
PanicExitCode == 101

\* ------------------------------------------------------------------ text

Digits == <<"0", "1", "2", "3", "4", "5", "6", "7", "8", "9">>

IsDigit(c) == \E i \in 1..10 : Digits[i] = c

DigitVal(c) == (CHOOSE i \in 1..10 : Digits[i] = c) - 1

\* char::is_whitespace on the characters the inputs use.
IsWhitespace(c) == c \in {" ", "\t", "\n", "\r"}

RECURSIVE TrimStart(_)
TrimStart(s) ==
    IF s # <<>> /\ IsWhitespace(Head(s)) THEN TrimStart(Tail(s)) ELSE s

RECURSIVE TrimEnd(_)
TrimEnd(s) ==
    IF s # <<>> /\ IsWhitespace(s[Len(s)])
    THEN TrimEnd(SubSeq(s, 1, Len(s) - 1))
    ELSE s

\* Mutant: only the leading whitespace is removed (trim_start for trim).
TrimLeadingOnly(s) == TrimStart(s)

\* str::trim: leading and trailing whitespace removed, the inside kept.
Trim(s) == TrimEnd(TrimStart(s))

QUIT == <<"q", "u", "i", "t">>

\* ------------------------------------------------------------------- u32

U32(hi, lo) == [hi |-> hi, lo |-> lo]

Small(n) == U32(0, n)

U32Max == U32(U32MaxHi, U32MaxLo)

Lt(a, b) == a.hi < b.hi \/ (a.hi = b.hi /\ a.lo < b.lo)

\* Ord::cmp on two u32 values.
Cmp(a, b) == IF Lt(a, b) THEN "Less" ELSE IF Lt(b, a) THEN "Greater" ELSE "Equal"

\* a * 10 + d before the width check (at most 10 * u32::MAX + 9).
MulAdd(a, d) ==
    LET t == a.lo * 10 + d
    IN  U32(a.hi * 10 + t \div Limb, t % Limb)

Ok(v) == [ok |-> TRUE, val |-> v, kind |-> "none"]
Err(k) == [ok |-> FALSE, val |-> Small(0), kind |-> k]

\* The digit loop of u32::from_str: checked_mul(10) then checked_add(digit).
RECURSIVE ParseDigits(_, _)
ParseDigits(ds, acc) ==
    IF ds = <<>> THEN Ok(acc)
    ELSE IF ~IsDigit(Head(ds)) THEN Err("InvalidDigit")
    ELSE LET next == MulAdd(acc, DigitVal(Head(ds)))
         IN  IF Lt(U32Max, next) THEN Err("PosOverflow")
             ELSE ParseDigits(Tail(ds), next)

\* Mutant: the empty text parses as 0 instead of failing.
ParseU32EmptyIsZero(src) ==
    IF src = <<>> THEN Ok(Small(0))
    ELSE IF Len(src) = 1 /\ src[1] \in {"+", "-"} THEN Err("InvalidDigit")
    ELSE ParseDigits(IF src[1] = "+" THEN Tail(src) ELSE src, Small(0))

\* str::parse::<u32>: empty text, a lone sign and a '-' are errors, a leading
\* '+' is accepted.
ParseU32(src) ==
    IF src = <<>> THEN Err("Empty")
    ELSE IF Len(src) = 1 /\ src[1] \in {"+", "-"} THEN Err("InvalidDigit")
    ELSE ParseDigits(IF src[1] = "+" THEN Tail(src) ELSE src, Small(0))

RECURSIVE FormatNat(_)
FormatNat(n) ==
    IF n < 10 THEN <<Digits[n + 1]>>
    ELSE FormatNat(n \div 10) \o <<Digits[(n % 10) + 1]>>

RECURSIVE ZeroPad(_, _)
ZeroPad(s, w) == IF Len(s) >= w THEN s ELSE ZeroPad(<<"0">> \o s, w)

\* Display for u32: decimal, no sign, no leading zeros.
FormatU32(v) ==
    IF v.hi = 0 THEN FormatNat(v.lo)
    ELSE FormatNat(v.hi) \o ZeroPad(FormatNat(v.lo), 5)

\* ---------------------------------------------------------------- output

Line(text) == <<text>>

BANNER == Line("Guess the number!")
HINT == Line("Type 'quit' to exit.")
PROMPT == Line("Please input your guess:")
GOODBYE == Line("Goodbye!")
RETRY == Line("Please type a number or 'quit'!")
TOO_SMALL == Line("Too small!")
TOO_BIG == Line("Too big!")
YOU_WIN == Line("You win!")
ECHO_PREFIX == "You guessed: "
READ_PANIC == Line("Failed to read line")

\* Mutant: the number printed in a fixed width of three digits ({guess:03}).
EchoPadded(v) == <<ECHO_PREFIX>> \o ZeroPad(FormatU32(v), 3)

\* Line 44: "You guessed: {guess}".
Echo(v) == <<ECHO_PREFIX>> \o FormatU32(v)

\* ----------------------------------------------------------------- stdin

NL == <<"\n">>

\* u32::MAX + 1, the first text the 32-bit parse rejects for its size.
OverflowText == FormatNat(U32MaxHi) \o ZeroPad(FormatNat(U32MaxLo + 1), 5)

\* The numbers a player types: around the secret, two fixed ones, u32::MAX.
GuessValues(s) ==
    {Small(s - 1), Small(s), Small(s + 1), Small(10), Small(100), U32Max}

NumberLines(s) == {FormatU32(v) \o NL : v \in GuessValues(s)}

\* The secret typed with padding, a sign, leading zeros.
DecoratedLines(s) ==
    { <<" ", "\t">> \o FormatNat(s) \o <<" ", "\r", "\n">>,
      <<"+">> \o FormatNat(s) \o NL,
      <<"0", "0">> \o FormatNat(s) \o NL }

NonNumberLines ==
    { NL,
      <<"a", "b", "c", "\n">>,
      <<"1", "2", ".", "5", "\n">>,
      <<"-", "5", "\n">>,
      <<"1", " ", "0", "\n">>,
      <<"Q", "u", "i", "t", "\n">>,
      <<"q", "u", "i", "t", "1", "\n">>,
      OverflowText \o NL }

QuitLines ==
    { QUIT \o NL,
      <<" ", " ">> \o QUIT \o <<" ", "\r", "\n">> }

\* A line read_line returns with its newline.
InputLines(s) ==
    NumberLines(s) \cup DecoratedLines(s) \cup NonNumberLines \cup QuitLines

\* What read_line returns when the stream ends: a last line without a
\* newline, or no bytes at all.
FinalLines(s) == { QUIT, FormatNat(s), <<>> }

\* A short stream for the runs checked to their end: the secret, a wrong
\* number, a text that is no number, the keyword.
FewLines(s) ==
    { FormatNat(s) \o NL, <<"1", "0", "\n">>, <<"a", "b", "c", "\n">>, QUIT \o NL }

FewFinalLines(s) == { QUIT, <<>> }

\* The input sequence of the documented example.
ExampleInputs ==
    << <<"1", "0", "\n">>, <<"1", "0", "0", "\n">>, <<"4", "2", "\n">> >>

\* Position in ExampleInputs after reading `line`, -1 once the input differs.
ExampleStep(pos, line) ==
    IF pos >= 0 /\ pos < Len(ExampleInputs) /\ line = ExampleInputs[pos + 1]
    THEN pos + 1
    ELSE -1

\* ------------------------------------------------------------------ main

Init ==
    /\ pc = "start"
    /\ secret_number = 0
    /\ guess = <<>>
    /\ read_result = "none"
    /\ trimmed = <<>>
    /\ num = Small(0)
    /\ out = <<>>
    /\ err = <<>>
    /\ exit = <<>>
    /\ stdin = "open"
    /\ reads = 0
    /\ example_pos = 0
    /\ line_in = <<>>

\* The end of one loop iteration: the trimmed slice and the number are gone;
\* the buffer is never read again, and line 15 binds a new one.
DropLocals ==
    /\ guess' = guess
    /\ trimmed' = <<>>
    /\ num' = Small(0)

\* Lines 7-8.
Banner ==
    /\ pc = "start"
    /\ out' = out \o <<BANNER, HINT>>
    /\ pc' = "draw"
    /\ UNCHANGED <<secret_number, guess, read_result, trimmed, num, err, exit,
                   stdin, reads, example_pos, line_in>>

\* Mutant: the range starts at 0 (random_range(0..=100)).
DrawSecretFromZero ==
    /\ pc = "draw"
    /\ secret_number' \in 0..SecretMax
    /\ pc' = "prompt"
    /\ UNCHANGED <<guess, read_result, trimmed, num, out, err, exit, stdin, reads,
                   example_pos, line_in>>

\* Line 10.
DrawSecret ==
    /\ pc = "draw"
    /\ secret_number' \in SecretMin..SecretMax
    /\ pc' = "prompt"
    /\ UNCHANGED <<guess, read_result, trimmed, num, out, err, exit, stdin, reads,
                   example_pos, line_in>>

\* Mutant: the buffer is created once, before the loop, and reused.
PromptReusesBuffer ==
    /\ pc = "prompt"
    /\ out' = Append(out, PROMPT)
    /\ guess' = guess
    /\ line_in' = <<>>
    /\ pc' = "read"
    /\ UNCHANGED <<secret_number, read_result, trimmed, num, err, exit, stdin,
                   reads, example_pos>>

\* Lines 13-15: the prompt and a fresh, empty buffer.
Prompt ==
    /\ pc = "prompt"
    /\ out' = Append(out, PROMPT)
    /\ guess' = <<>>
    /\ line_in' = <<>>
    /\ pc' = "read"
    /\ UNCHANGED <<secret_number, read_result, trimmed, num, err, exit, stdin,
                   reads, example_pos>>

\* read_line appends what it read to the buffer.
ReadInto(buf, line) == buf \o line

\* Lines 17-18, Ok(n): a whole line arrives.
ReadLineFrom(lines) ==
    /\ pc = "read"
    /\ stdin = "open"
    /\ reads < MaxReads
    /\ \E line \in lines :
          /\ guess' = ReadInto(guess, line)
          /\ line_in' = line
          /\ example_pos' = ExampleStep(example_pos, line)
    /\ read_result' = "Ok"
    /\ reads' = reads + 1
    /\ pc' = "expect"
    /\ UNCHANGED <<secret_number, trimmed, num, out, err, exit, stdin>>

\* Lines 17-18, Ok(n) at the end of the stream: the rest of the input without
\* a newline, and from then on no bytes.
ReadEofFrom(lines) ==
    /\ pc = "read"
    /\ reads < MaxReads
    /\ \E line \in (IF stdin = "open" THEN lines ELSE {<<>>}) :
          /\ guess' = ReadInto(guess, line)
          /\ line_in' = line
          /\ example_pos' = ExampleStep(example_pos, line)
    /\ read_result' = "Ok"
    /\ stdin' = "eof"
    /\ reads' = reads + 1
    /\ pc' = "expect"
    /\ UNCHANGED <<secret_number, trimmed, num, out, err, exit>>

ReadLine == ReadLineFrom(InputLines(secret_number))

ReadEof == ReadEofFrom(FinalLines(secret_number))

ReadFewLine == ReadLineFrom(FewLines(secret_number))

ReadFewEof == ReadEofFrom(FewFinalLines(secret_number))

\* Lines 17-18, Err(e): the read itself fails.
ReadError ==
    /\ pc = "read"
    /\ read_result' = "Err"
    /\ pc' = "expect"
    /\ UNCHANGED <<secret_number, guess, trimmed, num, out, err, exit, stdin,
                   reads, example_pos, line_in>>

\* Mutant: a failed read is reported like a bad guess and the loop goes on.
ExpectRetries ==
    /\ pc = "expect"
    /\ read_result = "Err"
    /\ out' = Append(out, RETRY)
    /\ read_result' = "none"
    /\ pc' = "prompt"
    /\ UNCHANGED <<secret_number, guess, trimmed, num, err, exit, stdin, reads,
                   example_pos, line_in>>

\* Line 19 on Err: expect panics with its message and the process aborts.
ExpectPanics ==
    /\ pc = "expect"
    /\ read_result = "Err"
    /\ err' = Append(err, READ_PANIC)
    /\ exit' = <<PanicExitCode>>
    /\ pc' = "panic"
    /\ UNCHANGED <<secret_number, guess, read_result, trimmed, num, out, stdin,
                   reads, example_pos, line_in>>

\* Mutant: the keyword is matched as a prefix (starts_with for ==).
IsQuitPrefix(text) == Len(text) >= Len(QUIT) /\ SubSeq(text, 1, Len(QUIT)) = QUIT

\* Mutant: an empty text leaves the loop like the keyword (end of input
\* taken as a request to stop).
IsQuitOrEmpty(text) == text = QUIT \/ text = <<>>

\* Line 23: guess == "quit".
IsQuit(text) == text = QUIT

\* Mutant: the farewell tells the number.
QuitRevealsSecret ==
    /\ pc = "expect"
    /\ read_result = "Ok"
    /\ IsQuit(Trim(guess))
    /\ out' = Append(out, <<"Goodbye! The number was ">> \o FormatNat(secret_number))
    /\ exit' = <<0>>
    /\ pc' = "done"
    /\ read_result' = "none"
    /\ DropLocals
    /\ UNCHANGED <<secret_number, err, stdin, reads, example_pos, line_in>>

\* Line 19 on Ok, lines 21-26.
Quit ==
    /\ pc = "expect"
    /\ read_result = "Ok"
    /\ IsQuit(Trim(guess))
    /\ out' = Append(out, GOODBYE)
    /\ exit' = <<0>>
    /\ pc' = "done"
    /\ read_result' = "none"
    /\ DropLocals
    /\ UNCHANGED <<secret_number, err, stdin, reads, example_pos, line_in>>

\* Line 19 on Ok, lines 21-23: the text is not the keyword.
NotQuit ==
    /\ pc = "expect"
    /\ read_result = "Ok"
    /\ ~IsQuit(Trim(guess))
    /\ trimmed' = Trim(guess)
    /\ read_result' = "none"
    /\ pc' = "parse"
    /\ UNCHANGED <<secret_number, guess, num, out, err, exit, stdin, reads,
                   example_pos, line_in>>

\* Mutant: the prompt is printed once, before the loop, and continue goes
\* straight to the next read.
ParseFailSkipsPrompt ==
    /\ pc = "parse"
    /\ ~ParseU32(trimmed).ok
    /\ out' = Append(out, RETRY)
    /\ pc' = "read"
    /\ guess' = <<>>
    /\ trimmed' = <<>>
    /\ num' = Small(0)
    /\ line_in' = <<>>
    /\ UNCHANGED <<secret_number, read_result, err, exit, stdin, reads,
                   example_pos>>

\* Lines 30, 36-41.
ParseFail ==
    /\ pc = "parse"
    /\ ~ParseU32(trimmed).ok
    /\ out' = Append(out, RETRY)
    /\ pc' = "prompt"
    /\ DropLocals
    /\ UNCHANGED <<secret_number, read_result, err, exit, stdin, reads,
                   example_pos, line_in>>

\* Lines 30-33 and 44.
ParseOk ==
    /\ pc = "parse"
    /\ ParseU32(trimmed).ok
    /\ num' = ParseU32(trimmed).val
    /\ out' = Append(out, Echo(ParseU32(trimmed).val))
    /\ pc' = "cmp"
    /\ UNCHANGED <<secret_number, guess, read_result, trimmed, err, exit, stdin,
                   reads, example_pos, line_in>>

\* Mutant: the comparison taken from the secret's side.
OrderingSwapped == Cmp(Small(secret_number), num)

\* Line 46: guess.cmp(&secret_number).
Ordering == Cmp(num, Small(secret_number))

\* Mutant: the loop is left in the Less arm too.
GuessLessBreaks ==
    /\ pc = "cmp"
    /\ Ordering = "Less"
    /\ out' = Append(out, TOO_SMALL)
    /\ exit' = <<0>>
    /\ pc' = "done"
    /\ DropLocals
    /\ UNCHANGED <<secret_number, read_result, err, stdin, reads, example_pos, line_in>>

\* Lines 46-47.
GuessLess ==
    /\ pc = "cmp"
    /\ Ordering = "Less"
    /\ out' = Append(out, TOO_SMALL)
    /\ pc' = "prompt"
    /\ DropLocals
    /\ UNCHANGED <<secret_number, read_result, err, exit, stdin, reads,
                   example_pos, line_in>>

\* Lines 46, 48.
GuessGreater ==
    /\ pc = "cmp"
    /\ Ordering = "Greater"
    /\ out' = Append(out, TOO_BIG)
    /\ pc' = "prompt"
    /\ DropLocals
    /\ UNCHANGED <<secret_number, read_result, err, exit, stdin, reads,
                   example_pos, line_in>>

\* Mutant: the Equal arm prints but does not leave the loop.
GuessEqualNoBreak ==
    /\ pc = "cmp"
    /\ Ordering = "Equal"
    /\ out' = Append(out, YOU_WIN)
    /\ pc' = "prompt"
    /\ DropLocals
    /\ UNCHANGED <<secret_number, read_result, err, exit, stdin, reads,
                   example_pos, line_in>>

\* Lines 46, 49-52.
GuessEqual ==
    /\ pc = "cmp"
    /\ Ordering = "Equal"
    /\ out' = Append(out, YOU_WIN)
    /\ exit' = <<0>>
    /\ pc' = "done"
    /\ DropLocals
    /\ UNCHANGED <<secret_number, read_result, err, stdin, reads, example_pos, line_in>>

Next ==
    \/ Banner
    \/ DrawSecret
    \/ Prompt
    \/ ReadLine
    \/ ReadEof
    \/ ReadError
    \/ ExpectPanics
    \/ Quit
    \/ NotQuit
    \/ ParseFail
    \/ ParseOk
    \/ GuessLess
    \/ GuessGreater
    \/ GuessEqual

Spec == Init /\ [][Next]_vars

\* The steps main takes by itself; a read waits for the player.
Step ==
    \/ Banner
    \/ DrawSecret
    \/ Prompt
    \/ ExpectPanics
    \/ Quit
    \/ NotQuit
    \/ ParseFail
    \/ ParseOk
    \/ GuessLess
    \/ GuessGreater
    \/ GuessEqual

LiveNext ==
    \/ Step
    \/ ReadFewLine
    \/ ReadFewEof
    \/ ReadError

\* A running process keeps executing: every step but the blocking read is
\* taken once it is enabled. The stream is the short one.
LiveSpec == Init /\ [][LiveNext]_vars /\ WF_vars(Step)

\* ------------------------------------- src/bin/guess_basic.rs (the echo)

\* Variables the loop of the guessing game alone uses.
gameVars == <<secret_number, trimmed, num, example_pos>>

EchoChars == {"a", "7", " ", "\t"}

\* Every text of at most MaxLineLen characters.
EchoTexts == UNION {[1..n -> EchoChars] : n \in 0..MaxLineLen}

BASIC_PROMPT == Line("Please input your guess.")

\* Lines 10-19: the two messages and the empty buffer.
BasicBanner ==
    /\ pc = "basic_start"
    /\ out' = out \o <<BANNER, BASIC_PROMPT>>
    /\ guess' = <<>>
    /\ pc' = "basic_read"
    /\ UNCHANGED <<gameVars, read_result, err, exit, stdin, reads, line_in>>

\* Lines 22-26, Ok(n): a line with its newline.
BasicReadLine ==
    /\ pc = "basic_read"
    /\ \E text \in EchoTexts :
          /\ guess' = ReadInto(guess, text \o NL)
          /\ line_in' = text \o NL
    /\ read_result' = "Ok"
    /\ reads' = reads + 1
    /\ pc' = "basic_expect"
    /\ UNCHANGED <<gameVars, out, err, exit, stdin>>

\* Lines 22-26, Ok(n) at the end of the input: what is left, without newline.
BasicReadEof ==
    /\ pc = "basic_read"
    /\ \E text \in EchoTexts :
          /\ guess' = ReadInto(guess, text)
          /\ line_in' = text
    /\ read_result' = "Ok"
    /\ stdin' = "eof"
    /\ reads' = reads + 1
    /\ pc' = "basic_expect"
    /\ UNCHANGED <<gameVars, out, err, exit>>

\* Lines 22-26, Err(e).
BasicReadError ==
    /\ pc = "basic_read"
    /\ read_result' = "Err"
    /\ pc' = "basic_expect"
    /\ UNCHANGED <<gameVars, guess, out, err, exit, stdin, reads, line_in>>

\* Line 29 on Err.
BasicExpectPanics ==
    /\ pc = "basic_expect"
    /\ read_result = "Err"
    /\ err' = Append(err, READ_PANIC)
    /\ exit' = <<PanicExitCode>>
    /\ pc' = "basic_panic"
    /\ UNCHANGED <<gameVars, guess, read_result, out, stdin, reads, line_in>>

\* Mutant: the text is trimmed before it is printed.
BasicPrintTrimmed ==
    /\ pc = "basic_expect"
    /\ read_result = "Ok"
    /\ out' = Append(out, <<ECHO_PREFIX>> \o Trim(guess))
    /\ exit' = <<0>>
    /\ pc' = "basic_done"
    /\ UNCHANGED <<gameVars, guess, read_result, err, stdin, reads, line_in>>

\* Line 29 on Ok, line 34: "You guessed: {guess}", then main returns.
BasicPrint ==
    /\ pc = "basic_expect"
    /\ read_result = "Ok"
    /\ out' = Append(out, <<ECHO_PREFIX>> \o guess)
    /\ exit' = <<0>>
    /\ pc' = "basic_done"
    /\ UNCHANGED <<gameVars, guess, read_result, err, stdin, reads, line_in>>

\* ------------------------------------ src/bin/native_compound_types.rs

\* 6.4 and its like: a whole part and tenths.
F64(whole, tenths) == [whole |-> whole, tenths |-> tenths]

\* Display for f64.
FormatF64(x) == FormatNat(x.whole) \o <<".">> \o FormatNat(x.tenths)

\* Lines 3, 10.
tup == <<500, F64(6, 4), 1>>
tup2 == <<500, F64(6, 4), 1>>

\* Lines 14, 20.
lst == <<1, 2, 3, 4, 5>>
lst2 == <<1, 2, 3, 4, 5>>

\* The positions read, counted from 0: y of (x, y, z), tup2.2, lst[0], lst2[1].
DemoIndex == [y |-> 1, third |-> 2, first |-> 0, second |-> 1]

\* t.i and a[i], defined for the positions that exist.
At(seq, i) == CASE i \in 0..(Len(seq) - 1) -> seq[i + 1]

demoVars == <<guess, read_result, err, stdin, reads, line_in>>

\* Lines 3-5.
DemoPrintY ==
    /\ pc = "demo_start"
    /\ out' = Append(out, <<"The value of y is: ">> \o FormatF64(At(tup, DemoIndex.y)))
    /\ pc' = "demo_third"
    /\ UNCHANGED <<gameVars, demoVars, exit>>

\* Lines 10-11.
DemoPrintThird ==
    /\ pc = "demo_third"
    /\ out' = Append(out, <<"The third value is: ">> \o FormatNat(At(tup2, DemoIndex.third)))
    /\ pc' = "demo_first"
    /\ UNCHANGED <<gameVars, demoVars, exit>>

\* Lines 14-16.
DemoPrintFirst ==
    /\ pc = "demo_first"
    /\ out' = Append(out, <<"The first element of the array is: ">>
                              \o FormatNat(At(lst, DemoIndex.first)))
    /\ pc' = "demo_second"
    /\ UNCHANGED <<gameVars, demoVars, exit>>

\* Mutant: the second element read at position 2.
DemoPrintSecondOffByOne ==
    /\ pc = "demo_second"
    /\ out' = Append(out, <<"The second element of lst2 is: ">>
                              \o FormatNat(At(lst2, DemoIndex.second + 1)))
    /\ exit' = <<0>>
    /\ pc' = "demo_done"
    /\ UNCHANGED <<gameVars, demoVars>>

\* Lines 20-22: the last line, then main returns.
DemoPrintSecond ==
    /\ pc = "demo_second"
    /\ out' = Append(out, <<"The second element of lst2 is: ">>
                              \o FormatNat(At(lst2, DemoIndex.second)))
    /\ exit' = <<0>>
    /\ pc' = "demo_done"
    /\ UNCHANGED <<gameVars, demoVars>>

\* --------------------------------------------- the two programs together

\* A process of either binary at its start.
OtherInit ==
    /\ pc \in {"basic_start", "demo_start"}
    /\ secret_number = 0
    /\ guess = <<>>
    /\ read_result = "none"
    /\ trimmed = <<>>
    /\ num = Small(0)
    /\ out = <<>>
    /\ err = <<>>
    /\ exit = <<>>
    /\ stdin = "open"
    /\ reads = 0
    /\ example_pos = 0
    /\ line_in = <<>>

OtherNext ==
    \/ BasicBanner
    \/ BasicReadLine
    \/ BasicReadEof
    \/ BasicReadError
    \/ BasicExpectPanics
    \/ BasicPrint
    \/ DemoPrintY
    \/ DemoPrintThird
    \/ DemoPrintFirst
    \/ DemoPrintSecond

OtherSpec == OtherInit /\ [][OtherNext]_vars

\* ------------------------------------------------- the claims' vocabulary

\* The text of a line between its first and last non-whitespace characters.
Surrounded(raw) ==
    LET idx == {k \in 1..Len(raw) : raw[k] \notin {" ", "\t", "\n", "\r"}}
    IN  IF idx = {} THEN <<>>
        ELSE SubSeq(raw, CHOOSE a \in idx : \A k \in idx : a <= k,
                         CHOOSE b \in idx : \A k \in idx : k <= b)

Unsigned(t) == IF t # <<>> /\ Head(t) = "+" THEN Tail(t) ELSE t

\* A non-negative decimal integer: digits, after an optional '+'.
IsNumberText(t) ==
    /\ Unsigned(t) # <<>>
    /\ \A k \in 1..Len(Unsigned(t)) : IsDigit(Unsigned(t)[k])

RECURSIVE Canonical(_)
Canonical(d) == IF Len(d) > 1 /\ Head(d) = "0" THEN Canonical(Tail(d)) ELSE d

\* Order of two decimal numerals without leading zeros, of any length.
NumeralLess(a, b) ==
    \/ Len(a) < Len(b)
    \/ /\ Len(a) = Len(b)
       /\ \E k \in 1..Len(a) :
             /\ SubSeq(a, 1, k - 1) = SubSeq(b, 1, k - 1)
             /\ DigitVal(a[k]) < DigitVal(b[k])

\* The text typed in the current iteration, while the iteration handles it.
Handling == pc \in {"expect", "parse", "cmp"} /\ read_result # "Err"
Typed == Surrounded(guess)
TypedNumeral == Canonical(Unsigned(Typed))
SecretNumeral == FormatNat(secret_number)

TypedEqual == Handling /\ IsNumberText(Typed) /\ TypedNumeral = SecretNumeral
TypedLess ==
    Handling /\ IsNumberText(Typed) /\ NumeralLess(TypedNumeral, SecretNumeral)
TypedGreater ==
    Handling /\ IsNumberText(Typed) /\ NumeralLess(SecretNumeral, TypedNumeral)
TypedQuit == Handling /\ Typed = <<"q", "u", "i", "t">>
TypedOther == Handling /\ ~IsNumberText(Typed) /\ Typed # <<"q", "u", "i", "t">>

Last(seq) == seq[Len(seq)]
Prints(line) == out' = Append(out, line)
PrintsEcho == Len(out') = Len(out) + 1 /\ Last(out')[1] = "You guessed: "
Silent == out' = out
Running == exit = <<>> /\ pc \notin {"done", "panic"}

\* ---------------------------------------------------------------- claims

\* C1: "You win!" is printed, and the game then terminates normally, exactly
\* in the comparison of an input whose trimmed text is a number equal to the
\* secret; such an input always reaches that comparison.
C1_WinIffEqual ==
    [][ /\ Prints(<<"You win!">>) <=> (pc = "cmp" /\ TypedEqual)
        /\ Prints(<<"You win!">>) => (pc' = "done" /\ exit' = <<0>>)
        /\ (TypedEqual /\ pc = "expect") => pc' = "parse"
        /\ (TypedEqual /\ pc = "parse") => pc' = "cmp"
        /\ (\E k \in 1..Len(out') : out'[k] = <<"You win!">>) => pc' = "done"
      ]_vars

\* A win after earlier inputs that did not win.
C1_Witness ==
    /\ pc = "done"
    /\ Last(out) = <<"You win!">>
    /\ reads > 1

\* C2: an input whose trimmed text is a number below the secret is echoed,
\* answered with "Too small!" and nothing else, and the game goes back to the
\* prompt with the same secret and without exiting.
C2_TooSmall ==
    [][ TypedLess =>
          /\ pc = "expect" => (pc' = "parse" /\ Silent)
          /\ pc = "parse" => (pc' = "cmp" /\ PrintsEcho)
          /\ pc = "cmp" => (Prints(<<"Too small!">>) /\ pc' = "prompt")
          /\ secret_number' = secret_number
          /\ exit' = <<>>
      ]_vars

\* The game is back at the prompt after "Too small!".
C2_Witness ==
    /\ pc = "prompt"
    /\ Last(out) = <<"Too small!">>
    /\ exit = <<>>

\* C3: an input whose trimmed text is a non-negative decimal integer above
\* the secret, of any magnitude, is answered with "Too big!" and the game
\* goes back to the prompt with the same secret.
C3_TooBigAnyMagnitude ==
    [][ TypedGreater =>
          /\ pc = "expect" => (pc' = "parse" /\ Silent)
          /\ pc = "parse" => (pc' = "cmp" /\ PrintsEcho)
          /\ pc = "cmp" => (Prints(<<"Too big!">>) /\ pc' = "prompt")
          /\ secret_number' = secret_number
          /\ exit' = <<>>
      ]_vars

\* C4: an input whose trimmed text is neither the keyword nor a number is
\* answered with the retry message alone, never reaches the comparison, and
\* the game goes back to the prompt with the same secret and without exiting.
C4_RetryOnOther ==
    [][ TypedOther =>
          /\ pc = "expect" => (pc' = "parse" /\ Silent)
          /\ pc = "parse" =>
                (Prints(<<"Please type a number or 'quit'!">>) /\ pc' = "prompt")
          /\ pc # "cmp"
          /\ secret_number' = secret_number
          /\ exit' = <<>>
      ]_vars

\* Two such inputs in a row: retry message, prompt, retry message.
C4_Witness ==
    /\ pc = "prompt"
    /\ Len(out) >= 3
    /\ out[Len(out)] = <<"Please type a number or 'quit'!">>
    /\ out[Len(out) - 1] = <<"Please input your guess:">>
    /\ out[Len(out) - 2] = <<"Please type a number or 'quit'!">>
    /\ exit = <<>>

\* C5: "Goodbye!" is printed, and the game then terminates normally, exactly
\* in the step that follows the read of a line whose trimmed text is "quit";
\* that step neither parses nor compares.
C5_QuitIffKeyword ==
    [][ /\ Prints(<<"Goodbye!">>) <=> (pc = "expect" /\ TypedQuit)
        /\ Prints(<<"Goodbye!">>) =>
              /\ pc' = "done"
              /\ exit' = <<0>>
              /\ num' = num
              /\ Len(out') = Len(out) + 1
        /\ (\E k \in 1..Len(out') : out'[k] = <<"Goodbye!">>) => pc' = "done"
      ]_vars

\* The keyword typed after earlier inputs.
C5_Witness ==
    /\ pc = "done"
    /\ Last(out) = <<"Goodbye!">>
    /\ exit = <<0>>
    /\ reads > 1

\* The comparison messages of an output, in the order written.
Feedback(lines) ==
    SelectSeq(lines, LAMBDA l : l \in {<<"Too small!">>, <<"Too big!">>, <<"You win!">>})

\* C6: with secret 42 and the lines "10", "100", "42" read, the comparison
\* messages are "Too small!", "Too big!", "You win!" in that order (each after
\* its prompt and its echo line), the third line ends the game with exit code
\* 0, and nothing is read or written afterwards.
C6_Example ==
    (secret_number = 42 /\ example_pos = 3) =>
        /\ reads = 3
        /\ pc \in {"expect", "parse", "cmp", "done"}
        /\ pc # "done" => Feedback(out) = << <<"Too small!">>, <<"Too big!">> >>
        /\ pc = "done" =>
              /\ out = << <<"Guess the number!">>,
                          <<"Type 'quit' to exit.">>,
                          <<"Please input your guess:">>,
                          <<"You guessed: ", "1", "0">>,
                          <<"Too small!">>,
                          <<"Please input your guess:">>,
                          <<"You guessed: ", "1", "0", "0">>,
                          <<"Too big!">>,
                          <<"Please input your guess:">>,
                          <<"You guessed: ", "4", "2">>,
                          <<"You win!">> >>
              /\ Feedback(out) = << <<"Too small!">>, <<"Too big!">>, <<"You win!">> >>
              /\ exit = <<0>>
              /\ ~ENABLED Next

\* The example run at its end.
C6_Witness ==
    /\ secret_number = 42
    /\ example_pos = 3
    /\ pc = "done"

SevenMessages ==
    { <<"Guess the number!">>, <<"Please input your guess:">>, <<"Too small!">>,
      <<"Too big!">>, <<"You win!">>, <<"Please type a number or 'quit'!">>,
      <<"Goodbye!">> }

\* C7 as stated: every line written to standard output is one of the seven
\* listed messages.
C7_OnlySevenMessages == \A k \in 1..Len(out) : out[k] \in SevenMessages

\* "You guessed: " followed by a decimal numeral without leading zeros.
IsEchoLine(l) ==
    /\ Len(l) >= 2
    /\ l[1] = "You guessed: "
    /\ \A k \in 2..Len(l) : IsDigit(l[k])
    /\ (Len(l) > 2 => l[2] # "0")

\* C7 amended: every line written to standard output is one of the seven
\* listed messages, the hint "Type 'quit' to exit." or an echo
\* "You guessed: <n>" of the number parsed.
C7_ListedHintOrEcho ==
    \A k \in 1..Len(out) :
        \/ out[k] \in SevenMessages
        \/ out[k] = <<"Type 'quit' to exit.">>
        \/ IsEchoLine(out[k])

\* A run that wrote the hint, an echo and comparison feedback.
C7_Witness ==
    /\ \E k \in 1..Len(out) : out[k] = <<"Type 'quit' to exit.">>
    /\ \E k \in 1..Len(out) : IsEchoLine(out[k]) /\ Len(out[k]) > 3
    /\ \E k \in 1..Len(out) : out[k] = <<"Too big!">>

\* C8: the secret is set by the draw alone, to a value in 1..100, before the
\* first read, and no later step changes it.
C8_SecretFixed ==
    [][ /\ pc = "draw" => secret_number' \in 1..100
        /\ pc # "draw" => secret_number' = secret_number
        /\ pc' \notin {"start", "draw"} => secret_number' \in 1..100
        /\ reads' > 0 => (reads > 0 \/ secret_number \in 1..100)
      ]_vars

\* The secret still in range after a parse failure and a wrong guess.
C8_Witness ==
    /\ secret_number \in 1..100
    /\ reads > 1
    /\ \E k \in 1..Len(out) : out[k] = <<"Please type a number or 'quit'!">>
    /\ \E k \in 1..Len(out) : out[k] = <<"Too small!">>
    /\ pc = "read"

\* C9: a failed read is followed by the abort alone: the diagnostic
\* "Failed to read line" on standard error, a non-zero exit code, nothing
\* written to standard output, no second read; no step follows the abort.
C9_ReadFailureAborts ==
    [][ /\ (pc = "expect" /\ read_result = "Err") =>
              /\ pc' = "panic"
              /\ err' = Append(err, <<"Failed to read line">>)
              /\ Silent
              /\ exit' # <<>> /\ exit' # <<0>>
              /\ reads' = reads
        /\ pc # "panic"
        /\ pc' = "panic" => (pc = "expect" /\ read_result = "Err")
      ]_vars

\* An abort at a later iteration.
C9_Witness ==
    /\ pc = "panic"
    /\ reads > 0
    /\ err = << <<"Failed to read line">> >>

\* C10: the Awaiting-guess loop is left only by the win, the quit or the
\* abort on a failed read; a wrong guess or a parse failure leads back to a
\* prompt that is always printed; and once the secret or the keyword has been
\* read the game terminates with exit code 0.
Awaiting == pc \in {"prompt", "read", "expect", "parse", "cmp"}

C10_LeavesOnlyByWinQuitAbort ==
    /\ [][ /\ (Awaiting /\ pc' \notin {"prompt", "read", "expect", "parse", "cmp"}) =>
                \/ Prints(<<"You win!">>) /\ pc' = "done"
                \/ Prints(<<"Goodbye!">>) /\ pc' = "done"
                \/ read_result = "Err" /\ pc' = "panic"
           /\ (Handling /\ (TypedOther \/ TypedLess \/ (TypedGreater /\ pc = "cmp"))) =>
                pc' \in {"prompt", "parse", "cmp"}
         ]_vars
    /\ [](pc = "prompt" => ENABLED Prompt)
    /\ ((TypedEqual \/ TypedQuit) ~> (pc = "done" /\ exit = <<0>>))

\* Still awaiting a guess after as many wrong inputs as the stream supplied.
C10_Witness ==
    /\ pc = "read"
    /\ reads > 2
    /\ \E k \in 1..Len(out) : out[k] = <<"Please type a number or 'quit'!">>
    /\ \E k \in 1..Len(out) : out[k] = <<"Too small!">>

\* C11: the echo program reads once; what it then writes is the line it read,
\* every character of it, after "You guessed: ", whatever the text is; it then
\* returns with code 0 and takes no further step; a failed read writes
\* nothing to standard output and aborts with "Failed to read line".
C11_EchoesTheLine ==
    [][ (pc \in {"basic_start", "basic_read", "basic_expect", "basic_done",
                 "basic_panic"}) =>
          /\ pc \notin {"basic_done", "basic_panic"}
          /\ pc = "basic_read" => (reads = 0 /\ read_result = "none" /\ guess = <<>>)
          /\ reads' # reads => (pc = "basic_read" /\ reads' = 1)
          /\ (pc = "basic_expect" /\ read_result = "Ok") =>
                /\ out' = Append(out, <<"You guessed: ">> \o line_in)
                /\ err' = err
                /\ exit' = <<0>>
                /\ pc' = "basic_done"
          /\ (pc = "basic_expect" /\ read_result = "Err") =>
                /\ Silent
                /\ err' = Append(err, <<"Failed to read line">>)
                /\ exit' # <<>> /\ exit' # <<0>>
                /\ pc' = "basic_panic"
      ]_vars

\* A line with whitespace before its newline, written back whole.
C11_Witness ==
    /\ pc = "basic_done"
    /\ reads = 1
    /\ Len(line_in) >= 3
    /\ line_in[Len(line_in)] = "\n"
    /\ line_in[Len(line_in) - 1] \in {" ", "\t"}
    /\ Last(out) = <<"You guessed: ">> \o line_in

\* C12: the demo reads nothing and writes four lines, with the values 6.4, 1,
\* 1 and 2 in that order, then returns with code 0; the positions it reads
\* exist in the 3-tuples and the 5-element arrays.
C12_DemoOutput ==
    /\ pc \in {"demo_start", "demo_third", "demo_first", "demo_second", "demo_done"} =>
          /\ reads = 0 /\ read_result = "none" /\ err = <<>>
          /\ Len(out) <= 4
          /\ pc # "demo_done" => exit = <<>>
          /\ Len(tup) = 3 /\ Len(tup2) = 3 /\ Len(lst) = 5 /\ Len(lst2) = 5
          /\ DemoIndex.y < 3 /\ DemoIndex.third < 3
          /\ DemoIndex.first < 5 /\ DemoIndex.second < 5
    /\ pc = "demo_done" =>
          /\ out = << <<"The value of y is: ", "6", ".", "4">>,
                      <<"The third value is: ", "1">>,
                      <<"The first element of the array is: ", "1">>,
                      <<"The second element of lst2 is: ", "2">> >>
          /\ exit = <<0>>
          /\ ~ENABLED OtherNext

\* The demo at its end.
C12_Witness ==
    /\ pc = "demo_done"
    /\ Len(out) = 4
    /\ exit = <<0>>

\* C13: what a step writes is a function of the step, the line read and the
\* way the typed number compares with the secret, and of nothing else about
\* the secret; a run without a numeric guess writes the output that its
\* number of prompts and its end alone determine.
Compare ==
    IF TypedLess THEN "Less"
    ELSE IF TypedGreater THEN "Greater"
    ELSE IF TypedEqual THEN "Equal"
    ELSE "none"

FitsU32(t) ==
    /\ IsNumberText(t)
    /\ ~NumeralLess(<<"4", "2", "9", "4", "9", "6", "7", "2", "9", "5">>,
                    Canonical(Unsigned(t)))

Response(at, result, text, cmp) ==
    CASE at = "start" -> << <<"Guess the number!">>, <<"Type 'quit' to exit.">> >>
      [] at = "prompt" -> << <<"Please input your guess:">> >>
      [] at = "expect" /\ result = "Ok" /\ text = <<"q", "u", "i", "t">> ->
            << <<"Goodbye!">> >>
      [] at = "parse" /\ FitsU32(text) ->
            << <<"You guessed: ">> \o Canonical(Unsigned(text)) >>
      [] at = "parse" /\ ~FitsU32(text) ->
            << <<"Please type a number or 'quit'!">> >>
      [] at = "cmp" /\ cmp = "Less" -> << <<"Too small!">> >>
      [] at = "cmp" /\ cmp = "Greater" -> << <<"Too big!">> >>
      [] at = "cmp" /\ cmp = "Equal" -> << <<"You win!">> >>
      [] OTHER -> <<>>

Count(lines, l) == Len(SelectSeq(lines, LAMBDA x : x = l))

NoNumericGuess == \A k \in 1..Len(out) : out[k][1] # "You guessed: "

RECURSIVE QuietOutput(_, _)
QuietOutput(prompts, answered) ==
    IF prompts = 0 THEN << <<"Guess the number!">>, <<"Type 'quit' to exit.">> >>
    ELSE QuietOutput(prompts - 1, prompts - 1)
            \o << <<"Please input your guess:">> >>
            \o (IF answered >= prompts
                THEN << <<"Please type a number or 'quit'!">> >>
                ELSE <<>>)

C13_OutputIndependentOfSecret ==
    /\ [][ out' = out \o Response(pc, read_result, Surrounded(line_in), Compare) ]_vars
    /\ [](NoNumericGuess /\ pc \in {"prompt", "read", "expect", "parse", "done"} =>
            out = QuietOutput(Count(out, <<"Please input your guess:">>),
                              Count(out, <<"Please type a number or 'quit'!">>))
                  \o (IF pc = "done" THEN << <<"Goodbye!">> >> ELSE <<>>))

\* Lines that are no numbers, then the keyword.
C13_Witness ==
    /\ pc = "done"
    /\ NoNumericGuess
    /\ Count(out, <<"Please type a number or 'quit'!">>) >= 2
    /\ Last(out) = <<"Goodbye!">>

\* A read that returned no bytes at the end of the input.
EmptyRead ==
    /\ stdin = "eof"
    /\ pc \in {"expect", "parse", "cmp"}
    /\ read_result # "Err"
    /\ line_in = <<>>

\* C14: at the end of the input a read returns no bytes; the empty text gets
\* the retry message and the game goes back to the prompt and to the next
\* read; from then on the game reaches neither the win nor the quit, and the
\* abort only if a read fails.
C14_EndOfInputLoops ==
    [][ /\ EmptyRead =>
              /\ pc = "expect" => (pc' = "parse" /\ Silent)
              /\ pc = "parse" =>
                    (Prints(<<"Please type a number or 'quit'!">>) /\ pc' = "prompt")
              /\ pc # "cmp"
              /\ exit' = <<>>
        /\ stdin = "eof" => stdin' = "eof"
        /\ (stdin = "eof" /\ pc = "prompt") =>
              (Prints(<<"Please input your guess:">>) /\ pc' = "read")
        /\ (stdin = "eof" /\ pc = "read" /\ read_result' # "Err") =>
              (line_in' = <<>> /\ guess' = <<>>)
        /\ (stdin = "eof" /\ pc' = "done") => line_in # <<>>
        /\ (stdin = "eof" /\ pc' = "panic") => read_result = "Err"
      ]_vars

\* The retry message after a read at the end of the input, not for the first
\* time in the run.
C14_Witness ==
    /\ stdin = "eof"
    /\ line_in = <<>>
    /\ pc = "prompt"
    /\ reads >= 2
    /\ Len(out) >= 3
    /\ out[Len(out)] = <<"Please type a number or 'quit'!">>
    /\ out[Len(out) - 2] = <<"Please type a number or 'quit'!">>

\* C15: every read starts with an empty buffer, so what is trimmed, tested,
\* parsed and compared in an iteration is the line read in that iteration.
C15_BufferIsThisLine ==
    /\ pc = "read" => guess = <<>>
    /\ (pc \in {"expect", "parse", "cmp"} /\ read_result # "Err") => guess = line_in
    /\ pc \in {"parse", "cmp"} => trimmed = Surrounded(line_in)
    /\ pc = "cmp" => FormatU32(num) = Canonical(Unsigned(Surrounded(line_in)))

\* A text that is no number, then the secret: the second line wins.
C15_Witness ==
    /\ pc = "done"
    /\ reads = 2
    /\ Count(out, <<"Please type a number or 'quit'!">>) = 1
    /\ Last(out) = <<"You win!">>
    /\ line_in = FormatNat(secret_number) \o <<"\n">>

\* C16: the banner is the first line and is written once; a read is attempted
\* only right after one prompt; a prompt is followed by a read; and once
\* "You win!" or "Goodbye!" is written, or the process has exited, no step
\* follows.
C16_OrderedAndAbsorbing ==
    [][ /\ exit = <<>>
        /\ pc # "done"
        /\ \A k \in 1..Len(out) : out[k] \notin {<<"You win!">>, <<"Goodbye!">>}
        /\ pc = "read" =>
              /\ Len(out) >= 3
              /\ out[Len(out)] = <<"Please input your guess:">>
              /\ out[Len(out) - 1] # <<"Please input your guess:">>
        /\ reads' # reads => (pc = "read" /\ reads' = reads + 1)
        /\ Prints(<<"Please input your guess:">>) => pc' = "read"
        /\ out'[1] = <<"Guess the number!">>
        /\ Count(out', <<"Guess the number!">>) = 1
        /\ Count(out', <<"Please input your guess:">>) \in {reads', reads' + 1}
      ]_vars

\* A finished game: as many prompts as reads, the win written last.
C16_Witness ==
    /\ pc = "done"
    /\ exit = <<0>>
    /\ reads > 2
    /\ Count(out, <<"Please input your guess:">>) = reads
    /\ Last(out) = <<"You win!">>
    /\ Count(out, <<"You win!">>) = 1

====
